---- MODULE Spec2Model ----
(***************************************************************************)
(* The R-to-C++ binding Rtsne_multicore_Rtsne_cpp of src/RcppExports.cpp.  *)
(*                                                                         *)
(* A call of the binding is a small sequential program: BEGIN_RCPP opens a *)
(* try block, two locals are constructed (the result holder and the RNG    *)
(* scope), six input_parameter wrappers are bound to the six SEXP          *)
(* arguments, the call expression of line 20 converts each wrapper to its  *)
(* native type (operator T(), in an order the language leaves open),       *)
(* calls Rtsne_cpp once, wraps and stores the result, and line 21 returns  *)
(* it.  Leaving the try block destroys the locals in reverse order of      *)
(* declaration; END_RCPP turns a pending C++ exception into an R           *)
(* condition.                                                              *)
(*                                                                         *)
(* Real numbers are held in tenths (5 stands for 0.5), so that a           *)
(* conversion between INTSXP and REALSXP is a computation, not the         *)
(* identity.                                                               *)
(***************************************************************************)
EXTENDS Integers, Sequences, FiniteSets, TLC

\* ---------------------------------------------------------------- bounds
MaxRows == 2
MaxCalls == 2

\* ------------------------------------------------------------- constants
\* The callers (threads of control entering the binding).
Calls == {1, 2}

\* R's NULL; the result objects of the native routine are named by positive ids.
R_NilValue == 0

\* The parameters of the binding, in the order of its signature (line 10).
ParamOrder == <<"X", "no_dims_in", "perplexity_in", "theta_in", "num_threads", "max_iter">>

ParamNames == {ParamOrder[i] : i \in 1..Len(ParamOrder)}

\* The native type each input_parameter<T> is declared with (lines 14-19).
ParamType == [X |-> "NumericMatrix", no_dims_in |-> "int", perplexity_in |-> "double",
              theta_in |-> "double", num_threads |-> "int", max_iter |-> "int"]

\* The states of the runtime's random number generator, and the state that
\* follows each when a number is drawn.
Seeds == {0, 1}

NextSeed(s) == 1 - s

NoException == [type |-> "none", what |-> ""]

\* ------------------------------------------------------------ the state
VARIABLES
  pc,               \* [Calls -> label]: where each call of the binding stands
  supplied,         \* [Calls -> <<SEXP x 6>>]: the arguments as the caller passed them
  params,           \* [Calls -> [ParamNames -> SEXP]]: the input_parameter wrappers
  nargs,            \* [Calls -> [converted names -> native value]]
  live,             \* [Calls -> Seq(local name)]: constructed locals, in order
  rcpp_result_gen,  \* [slot -> SEXP id]: the Rcpp::RObject result holder
  tmp,              \* [Calls -> SEXP id]: the Rcpp::List temporary of line 20
  pending,          \* [Calls -> exception]: the C++ exception in flight
  retval,           \* [Calls -> SEXP id]: the value of the return statement
  outcome,          \* [Calls -> record]: what the caller of .Call observes
  buf,              \* [buffer id -> cells]: the numeric vectors of R's heap
  objects,          \* [Calls -> <<>> or <<bundle>>]: the result lists of R's heap
  preserved,        \* the SEXP ids on R's precious list
  RandomSeed,       \* <<>> or <<s>>: .Random.seed of the global environment
  rngState,         \* the RNG state inside the R runtime
  RNGScopeCounter,  \* Rcpp's count of open RNG scopes
  ncalls,           \* calls of the binding begun so far
  seed0,            \* history: .Random.seed before the first call
  drew,             \* history: some native invocation drew a random number
  h                 \* history, per call (see NoHistory)

vars == <<pc, supplied, params, nargs, live, rcpp_result_gen, tmp, pending, retval,
          outcome, buf, objects, preserved, RandomSeed, rngState, RNGScopeCounter,
          ncalls, seed0, drew, h>>

\* -------------------------------------------------------- host values
Sexp(t, m, n, v) == [type |-> t, isMatrix |-> m, len |-> n, val |-> v]

\* A numeric matrix argument of call c: its cells live in buffer c of the heap.
MatrixArg(t, m, n, c) == Sexp(t, m, n, c)

\* The buffer that a coercion of call c's matrix allocates.
CoerceBuf(c) == c + Cardinality(Calls)

BufIds == Calls \cup {CoerceBuf(c) : c \in Calls}

\* The cells a caller's matrix of n rows starts with (one column).
InitCells(t, n) == [i \in 1..n |-> IF t = "REALSXP" THEN 10 * i + 5 ELSE i]

\* ---------------------------------------------------------- conversions
Ok(v) == [ok |-> TRUE, val |-> v, exc |-> NoException]

Fail(t, w) == [ok |-> FALSE, val |-> 0, exc |-> [type |-> t, what |-> w]]

\* Rf_coerceVector REALSXP -> INTSXP: truncation toward zero.
Trunc(tenths) == IF tenths >= 0 THEN tenths \div 10 ELSE -((-tenths) \div 10)

\* Rcpp::as<int>, reached through InputParameter<int>::operator int().
as_int(x) ==
  IF x.len # 1 THEN Fail("Rcpp::not_compatible", "expecting a single value")
  ELSE IF x.type = "INTSXP" THEN Ok(x.val)
  ELSE IF x.type = "REALSXP" THEN Ok(Trunc(x.val))
  ELSE Fail("Rcpp::not_compatible", "not compatible with requested type")

\* A plausible slip: a string is read as the number 0 instead of being refused.
as_double_lenient(x) ==
  IF x.len # 1 THEN Fail("Rcpp::not_compatible", "expecting a single value")
  ELSE IF x.type = "REALSXP" THEN Ok(x.val)
  ELSE IF x.type = "INTSXP" THEN Ok(10 * x.val)
  ELSE Ok(0)

\* Rcpp::as<double>, reached through InputParameter<double>::operator double().
as_double(x) ==
  IF x.len # 1 THEN Fail("Rcpp::not_compatible", "expecting a single value")
  ELSE IF x.type = "REALSXP" THEN Ok(x.val)
  ELSE IF x.type = "INTSXP" THEN Ok(10 * x.val)
  ELSE Fail("Rcpp::not_compatible", "not compatible with requested type")

\* A plausible slip: an INTSXP matrix is reinterpreted in place, no copy made.
as_NumericMatrix_inplace(x, c) ==
  IF x.type \notin {"REALSXP", "INTSXP"}
  THEN Fail("Rcpp::not_compatible", "not compatible with requested type")
  ELSE IF ~x.isMatrix THEN Fail("Rcpp::not_a_matrix", "not a matrix")
  ELSE Ok([buf |-> x.val, nrow |-> x.len])

\* Rcpp::as<NumericMatrix>: Matrix(SEXP) casts the vector to REALSXP (the same
\* object when it already is one, a coerced copy otherwise) and reads its dim.
as_NumericMatrix(x, c) ==
  IF x.type \notin {"REALSXP", "INTSXP"}
  THEN Fail("Rcpp::not_compatible", "not compatible with requested type")
  ELSE IF ~x.isMatrix THEN Fail("Rcpp::not_a_matrix", "not a matrix")
  ELSE IF x.type = "REALSXP" THEN Ok([buf |-> x.val, nrow |-> x.len])
  ELSE Ok([buf |-> CoerceBuf(c), nrow |-> x.len])

\* InputParameter<T>::operator T() of the parameter called name.
Convert(name, x, c) ==
  IF ParamType[name] = "NumericMatrix" THEN as_NumericMatrix(x, c)
  ELSE IF ParamType[name] = "int" THEN as_int(x)
  ELSE as_double(x)

\* The heap after the conversion: a coercion allocates and fills its copy.
HeapAfterConvert(name, x, c) ==
  IF ParamType[name] = "NumericMatrix" /\ Convert(name, x, c).ok
     /\ Convert(name, x, c).val.buf # x.val
  THEN [buf EXCEPT ![Convert(name, x, c).val.buf] = [i \in 1..x.len |-> 10 * buf[x.val][i]]]
  ELSE buf

\* ------------------------------------------------- the native routine
\* Rtsne_cpp is declared on line 9 and defined outside the file.  It is taken as
\* the opaque routine its documentation describes: it checks the constraints on
\* its inputs and fails loudly when one is violated, it may fail for want of a
\* resource, and otherwise it returns a bundle.  Its parameter X is a
\* NumericMatrix passed by value, a handle on the cells, which it may write.
NativeFailures ==
  { [type |-> "Rcpp::exception", what |-> "invalid configuration"],
    [type |-> "std::bad_alloc", what |-> "std::bad_alloc"],
    [type |-> "Rcpp::internal::InterruptedException", what |-> "interrupt"],
    [type |-> "non-std", what |-> "thread creation failed"] }

\* The constraints on the inputs (reals in tenths).
ValidInputs(a) ==
  /\ a[1].nrow >= 1
  /\ a[2] >= 1
  /\ a[3] > 0
  /\ a[3] < 10 * (a[1].nrow - 1)
  /\ a[4] >= 0 /\ a[4] <= 10
  /\ a[5] >= 1
  /\ a[6] >= 1

Bundle(a) == [rows |-> a[1].nrow, cols |-> a[2], theta |-> a[4], itercount |-> a[6]]

\* The ways one invocation on the positional arguments a can end.
Rtsne_cpp(a) ==
  (IF ValidInputs(a) THEN {[kind |-> "return", exc |-> NoException]} ELSE {})
  \cup {[kind |-> "throw", exc |-> e] : e \in NativeFailures}

\* What a write of the native routine leaves in the cells it was handed.
NativeWrite(cells) == [i \in DOMAIN cells |-> 0]

\* ------------------------------------------------------- the binding
\* The locals with a destructor, in the order lines 12 and 13 declare them.
DeclOrderSwapped == <<"rcpp_rngScope_gen", "rcpp_result_gen">>

DeclOrder == <<"rcpp_result_gen", "rcpp_rngScope_gen">>

\* rcpp_result_gen has automatic storage: one holder per call.
HolderSlotStatic(c) == 1

HolderSlot(c) == c

\* The order in which line 20 passes the converted parameters to Rtsne_cpp.
CallArgOrderSwapped ==
  <<"X", "no_dims_in", "theta_in", "perplexity_in", "num_threads", "max_iter">>

CallArgOrder ==
  <<"X", "no_dims_in", "perplexity_in", "theta_in", "num_threads", "max_iter">>

\* Where control goes when the call expression of line 20 throws: out of the
\* try block (there is no handler that calls again).
ThrowTargetRetry == "call"

ThrowTarget == "unwind"

\* Rcpp::wrap of the Rcpp::List the routine returned: the SEXP it holds.
WrapNull(list) == R_NilValue

Wrap(list) == list.sexp

\* GetRNGstate(): the states the runtime's RNG may hold after reading
\* .Random.seed (seeded afresh when the variable does not exist).
GetRNGstateFresh == Seeds

GetRNGstate == IF RandomSeed = <<>> THEN Seeds ELSE {RandomSeed[1]}

NoOutcome == [kind |-> "none", value |-> R_NilValue, message |-> "", class |-> ""]

\* A handler list that swallows the exception and returns R_NilValue.
EndRcppSwallow(e) ==
  [kind |-> "value", value |-> R_NilValue, message |-> "", class |-> ""]

\* A handler list reduced to catch (...): every exception becomes the generic error.
EndRcppGeneric(e) ==
  [kind |-> "error", value |-> R_NilValue,
   message |-> "c++ exception (unknown reason)", class |-> "try-error"]

\* END_RCPP: the handlers of the try block and what each hands to R.
\*   InterruptedException -> Rf_onintr(): an interrupt condition
\*   std::exception (Rcpp::exception included) -> stop(condition), the
\*        condition carrying what() and the exception's class
\*   anything else -> stop("c++ exception (unknown reason)")
EndRcpp(e) ==
  IF e.type = "Rcpp::internal::InterruptedException"
  THEN [kind |-> "interrupt", value |-> R_NilValue, message |-> "interrupt",
        class |-> "interrupt"]
  ELSE IF e.type = "non-std"
  THEN [kind |-> "error", value |-> R_NilValue,
        message |-> "c++ exception (unknown reason)", class |-> "try-error"]
  ELSE [kind |-> "error", value |-> R_NilValue, message |-> e.what, class |-> e.type]

NoHistory ==
  [ invocations |-> 0,        \* entries into Rtsne_cpp
    entered |-> 0,            \* enterRNGScope calls
    exited |-> 0,             \* exitRNGScope calls
    holderAtExit |-> R_NilValue, \* the holder's content when the scope was exited
    thrown |-> NoException,   \* the exception Rtsne_cpp raised
    recv |-> <<>>,            \* the positional arguments Rtsne_cpp received
    seen |-> <<>>,            \* the cells of the matrix Rtsne_cpp received, on entry
    produced |-> <<>>,        \* <<sexp id, bundle>> Rtsne_cpp returned
    wrote |-> FALSE,          \* Rtsne_cpp wrote to some cell it was handed
    cells0 |-> <<>>,          \* the caller's matrix cells when the call began
    early |-> FALSE ]         \* a conversion or the routine ran outside the RNG scope

Active(c) == pc[c] \notin {"idle", "done"}

Quiescent == \A c \in Calls : ~Active(c)

\* ------------------------------------------------------------- inputs
\* The values a caller may pass for each parameter.
MatrixChoices(c) ==
  {MatrixArg("REALSXP", TRUE, n, c) : n \in 0..MaxRows}
  \cup { MatrixArg("INTSXP", TRUE, MaxRows, c),     \* an integer matrix
         MatrixArg("STRSXP", TRUE, MaxRows, c),     \* a character matrix
         MatrixArg("REALSXP", FALSE, MaxRows, c) }  \* a vector without dim

DimsChoices == {Sexp("INTSXP", FALSE, 1, 2), Sexp("REALSXP", FALSE, 1, 35)}

PerplexityChoices == {Sexp("REALSXP", FALSE, 1, 5), Sexp("INTSXP", FALSE, 1, 3)}

ThetaChoices == {Sexp("REALSXP", FALSE, 1, 0), Sexp("INTSXP", FALSE, 1, 1),
                 Sexp("STRSXP", FALSE, 1, 0)}

ThreadsChoices == {Sexp("INTSXP", FALSE, 1, 4)}

IterChoices == {Sexp("INTSXP", FALSE, 1, 1), Sexp("INTSXP", FALSE, 2, 1)}

AllInputs(c) ==
  {<<m, d, p, t, n, i>> : m \in MatrixChoices(c), d \in DimsChoices,
      p \in PerplexityChoices, t \in ThetaChoices, n \in ThreadsChoices,
      i \in IterChoices}

\* The inputs of the two-caller specification.
FewInputs(c) ==
  {<<m, Sexp("INTSXP", FALSE, 1, 2), Sexp("REALSXP", FALSE, 1, 5), t,
     Sexp("INTSXP", FALSE, 1, 1), Sexp("INTSXP", FALSE, 1, c)>> :
      m \in {MatrixArg(IF c = 1 THEN "REALSXP" ELSE "INTSXP", TRUE, MaxRows, c)},
      t \in {Sexp("REALSXP", FALSE, 1, 5 * (c - 1)), Sexp("STRSXP", FALSE, 1, 0)}}

\* ---------------------------------------------------------------- Init
Init ==
  /\ pc = [c \in Calls |-> "idle"]
  /\ supplied = [c \in Calls |-> <<>>]
  /\ params = [c \in Calls |-> <<>>]
  /\ nargs = [c \in Calls |-> <<>>]
  /\ live = [c \in Calls |-> <<>>]
  /\ rcpp_result_gen = [c \in Calls |-> R_NilValue]
  /\ tmp = [c \in Calls |-> [sexp |-> R_NilValue]]
  /\ pending = [c \in Calls |-> NoException]
  /\ retval = [c \in Calls |-> R_NilValue]
  /\ outcome = [c \in Calls |-> NoOutcome]
  /\ buf = [b \in BufIds |-> <<>>]
  /\ objects = [c \in Calls |-> <<>>]
  /\ preserved = {}
  /\ RandomSeed \in {<<>>} \cup {<<s>> : s \in Seeds}
  /\ rngState = 0
  /\ RNGScopeCounter = 0
  /\ ncalls = 0
  /\ seed0 = RandomSeed
  /\ drew = FALSE
  /\ h = [c \in Calls |-> NoHistory]

\* ------------------------------------------------------------- actions
\* Line 10: the host calls the binding with six SEXP arguments.
Call(c, args) ==
  /\ pc[c] = "idle"
  /\ supplied' = [supplied EXCEPT ![c] = args]
  /\ buf' = [buf EXCEPT ![c] = InitCells(args[1].type, args[1].len),
                         ![CoerceBuf(c)] = <<>>]
  /\ h' = [h EXCEPT ![c] = [NoHistory EXCEPT
                               !.cells0 = InitCells(args[1].type, args[1].len)]]
  /\ params' = [params EXCEPT ![c] = <<>>]
  /\ nargs' = [nargs EXCEPT ![c] = <<>>]
  /\ outcome' = [outcome EXCEPT ![c] = NoOutcome]
  /\ retval' = [retval EXCEPT ![c] = R_NilValue]
  /\ objects' = [objects EXCEPT ![c] = <<>>]
  /\ pc' = [pc EXCEPT ![c] = "decl"]
  /\ ncalls' = ncalls + 1
  /\ UNCHANGED <<live, rcpp_result_gen, tmp, pending, preserved, RandomSeed,
                 rngState, RNGScopeCounter, seed0, drew>>

\* A caller that calls again and again, with any inputs.
CallAny(c) ==
  /\ ncalls < MaxCalls
  /\ \E args \in AllInputs(c) : Call(c, args)

\* A caller that calls once.
CallOnce(c) == \E args \in FewInputs(c) : Call(c, args)

NextDecl(c) == IF Len(live[c]) < Len(DeclOrder) THEN DeclOrder[Len(live[c]) + 1] ELSE "none"

\* Line 12: Rcpp::RObject rcpp_result_gen, holding R_NilValue.
DeclResultGen(c) ==
  /\ pc[c] = "decl"
  /\ NextDecl(c) = "rcpp_result_gen"
  /\ rcpp_result_gen' = [rcpp_result_gen EXCEPT ![HolderSlot(c)] = R_NilValue]
  /\ live' = [live EXCEPT ![c] = Append(@, "rcpp_result_gen")]
  /\ UNCHANGED <<pc, supplied, params, nargs, tmp, pending, retval, outcome, buf,
                 objects, preserved, RandomSeed, rngState, RNGScopeCounter, ncalls,
                 seed0, drew, h>>

\* Line 13: Rcpp::RNGScope rcpp_rngScope_gen; its constructor is enterRNGScope().
DeclRngScope(c) ==
  /\ pc[c] = "decl"
  /\ NextDecl(c) = "rcpp_rngScope_gen"
  /\ IF RNGScopeCounter = 0
     THEN rngState' \in GetRNGstate
     ELSE rngState' = rngState
  /\ RNGScopeCounter' = RNGScopeCounter + 1
  /\ live' = [live EXCEPT ![c] = Append(@, "rcpp_rngScope_gen")]
  /\ h' = [h EXCEPT ![c].entered = @ + 1]
  /\ UNCHANGED <<pc, supplied, params, nargs, rcpp_result_gen, tmp, pending, retval,
                 outcome, buf, objects, preserved, RandomSeed, ncalls, seed0, drew>>

ParamIndex(name) == CHOOSE i \in 1..Len(ParamOrder) : ParamOrder[i] = name

\* Lines 14-19: each input_parameter<T>::type name(nameSEXP) keeps its SEXP.
DeclParams(c) ==
  /\ pc[c] = "decl"
  /\ NextDecl(c) = "none"
  /\ params' = [params EXCEPT ![c] = [n \in ParamNames |-> supplied[c][ParamIndex(n)]]]
  /\ pc' = [pc EXCEPT ![c] = "call"]
  /\ UNCHANGED <<supplied, nargs, live, rcpp_result_gen, tmp, pending, retval,
                 outcome, buf, objects, preserved, RandomSeed, rngState,
                 RNGScopeCounter, ncalls, seed0, drew, h>>

InScope(c) == h[c].entered = 1 /\ h[c].exited = 0

\* Line 20, an argument of the call expression: operator T() of one parameter.
\* The arguments are converted in an order the language does not fix.  A
\* conversion that throws ends the call expression: the arguments already
\* converted are temporaries, destroyed as the exception leaves.
ConvertArg(c, name) ==
  /\ pc[c] = "call"
  /\ name \notin DOMAIN nargs[c]
  /\ LET r == Convert(name, params[c][name], c) IN
       IF r.ok
       THEN /\ nargs' = [nargs EXCEPT ![c] = (name :> r.val) @@ @]
            /\ buf' = HeapAfterConvert(name, params[c][name], c)
            /\ UNCHANGED <<pc, pending>>
       ELSE /\ pending' = [pending EXCEPT ![c] = r.exc]
            /\ pc' = [pc EXCEPT ![c] = ThrowTarget]
            /\ nargs' = [nargs EXCEPT ![c] = <<>>]
            /\ UNCHANGED buf
  /\ h' = [h EXCEPT ![c].early = @ \/ ~InScope(c)]
  /\ UNCHANGED <<supplied, params, live, rcpp_result_gen, tmp, retval, outcome,
                 objects, preserved, RandomSeed, rngState, RNGScopeCounter, ncalls,
                 seed0, drew>>

CallArgs(c) == [i \in 1..Len(CallArgOrder) |-> nargs[c][CallArgOrder[i]]]

\* Line 20, the call Rtsne_cpp(X, no_dims_in, perplexity_in, theta_in,
\* num_threads, max_iter): every argument has been converted.
InvokeNative(c) ==
  /\ pc[c] = "call"
  /\ DOMAIN nargs[c] = ParamNames
  /\ \E o \in Rtsne_cpp(CallArgs(c)), w \in BOOLEAN, d \in BOOLEAN :
       /\ buf' = IF w THEN [buf EXCEPT ![CallArgs(c)[1].buf] = NativeWrite(@)] ELSE buf
       /\ rngState' = IF d THEN NextSeed(rngState) ELSE rngState
       /\ drew' = (drew \/ d)
       /\ IF o.kind = "return"
          THEN /\ objects' = [objects EXCEPT ![c] = <<Bundle(CallArgs(c))>>]
               /\ tmp' = [tmp EXCEPT ![c] = [sexp |-> c]]
               /\ pc' = [pc EXCEPT ![c] = "wrap"]
               /\ h' = [h EXCEPT ![c].invocations = @ + 1,
                                 ![c].recv = CallArgs(c),
                                 ![c].seen = buf[CallArgs(c)[1].buf],
                                 ![c].wrote = (w /\ CallArgs(c)[1].nrow > 0),
                                 ![c].early = @ \/ ~InScope(c),
                                 ![c].produced = <<c, Bundle(CallArgs(c))>>]
               /\ UNCHANGED <<pending, nargs>>
          ELSE /\ pending' = [pending EXCEPT ![c] = o.exc]
               /\ pc' = [pc EXCEPT ![c] = ThrowTarget]
               /\ h' = [h EXCEPT ![c].invocations = @ + 1,
                                 ![c].recv = CallArgs(c),
                                 ![c].seen = buf[CallArgs(c)[1].buf],
                                 ![c].wrote = (w /\ CallArgs(c)[1].nrow > 0),
                                 ![c].early = @ \/ ~InScope(c),
                                 ![c].thrown = o.exc]
               /\ nargs' = [nargs EXCEPT ![c] = <<>>]
               /\ UNCHANGED <<objects, tmp>>
  /\ UNCHANGED <<supplied, params, live, rcpp_result_gen, retval, outcome,
                 preserved, RandomSeed, RNGScopeCounter, ncalls, seed0>>

\* Line 20, the assignment rcpp_result_gen = Rcpp::wrap(...): the holder
\* releases what it held and preserves the new object; the statement ends and
\* its temporaries (the converted arguments, the returned list) are destroyed.
StoreResult(c) ==
  /\ pc[c] = "wrap"
  /\ rcpp_result_gen' = [rcpp_result_gen EXCEPT ![HolderSlot(c)] = Wrap(tmp[c])]
  /\ preserved' = ((preserved \ {rcpp_result_gen[HolderSlot(c)]}) \cup {Wrap(tmp[c])})
                     \ {R_NilValue}
  /\ tmp' = [tmp EXCEPT ![c] = [sexp |-> R_NilValue]]
  /\ nargs' = [nargs EXCEPT ![c] = <<>>]
  /\ pc' = [pc EXCEPT ![c] = "return"]
  /\ UNCHANGED <<supplied, params, live, pending, retval, outcome, buf,
                 objects, RandomSeed, rngState, RNGScopeCounter, ncalls, seed0,
                 drew, h>>

\* Line 21: return rcpp_result_gen; the SEXP is read out of the holder.
ReturnStmt(c) ==
  /\ pc[c] = "return"
  /\ retval' = [retval EXCEPT ![c] = rcpp_result_gen[HolderSlot(c)]]
  /\ pc' = [pc EXCEPT ![c] = "unwind"]
  /\ UNCHANGED <<supplied, params, nargs, live, rcpp_result_gen, tmp, pending,
                 outcome, buf, objects, preserved, RandomSeed, rngState,
                 RNGScopeCounter, ncalls, seed0, drew, h>>

\* Leaving the try block, by return or by exception: ~RNGScope() is
\* exitRNGScope(), which writes .Random.seed when the last scope closes.
DestroyRngScope(c) ==
  /\ pc[c] = "unwind"
  /\ live[c] # <<>>
  /\ live[c][Len(live[c])] = "rcpp_rngScope_gen"
  /\ RNGScopeCounter' = RNGScopeCounter - 1
  /\ RandomSeed' = IF RNGScopeCounter = 1 THEN <<rngState>> ELSE RandomSeed
  /\ live' = [live EXCEPT ![c] = SubSeq(@, 1, Len(@) - 1)]
  /\ h' = [h EXCEPT ![c].exited = @ + 1,
                    ![c].holderAtExit = rcpp_result_gen[HolderSlot(c)]]
  /\ UNCHANGED <<pc, supplied, params, nargs, rcpp_result_gen, tmp, pending, retval,
                 outcome, buf, objects, preserved, rngState, ncalls, seed0, drew>>

\* Leaving the try block: ~RObject() releases the object it preserved.
DestroyResultGen(c) ==
  /\ pc[c] = "unwind"
  /\ live[c] # <<>>
  /\ live[c][Len(live[c])] = "rcpp_result_gen"
  /\ preserved' = preserved \ {rcpp_result_gen[HolderSlot(c)]}
  /\ rcpp_result_gen' = [rcpp_result_gen EXCEPT ![HolderSlot(c)] = R_NilValue]
  /\ live' = [live EXCEPT ![c] = SubSeq(@, 1, Len(@) - 1)]
  /\ UNCHANGED <<pc, supplied, params, nargs, tmp, pending, retval, outcome, buf,
                 objects, RandomSeed, rngState, RNGScopeCounter, ncalls, seed0,
                 drew, h>>

\* Line 21 completes: the caller of .Call receives the returned SEXP.
ReturnToCaller(c) ==
  /\ pc[c] = "unwind"
  /\ live[c] = <<>>
  /\ pending[c] = NoException
  /\ outcome' = [outcome EXCEPT ![c] = [kind |-> "value", value |-> retval[c],
                                        message |-> "", class |-> ""]]
  /\ pc' = [pc EXCEPT ![c] = "done"]
  /\ UNCHANGED <<supplied, params, nargs, live, rcpp_result_gen, tmp, pending, retval,
                 buf, objects, preserved, RandomSeed, rngState, RNGScopeCounter,
                 ncalls, seed0, drew, h>>

\* Line 22, END_RCPP: a handler catches the exception and raises it in R.
CatchAndRaise(c) ==
  /\ pc[c] = "unwind"
  /\ live[c] = <<>>
  /\ pending[c] # NoException
  /\ outcome' = [outcome EXCEPT ![c] = EndRcpp(pending[c])]
  /\ pending' = [pending EXCEPT ![c] = NoException]
  /\ pc' = [pc EXCEPT ![c] = "done"]
  /\ UNCHANGED <<supplied, params, nargs, live, rcpp_result_gen, tmp, retval, buf,
                 objects, preserved, RandomSeed, rngState, RNGScopeCounter, ncalls,
                 seed0, drew, h>>

\* The caller has taken the outcome and dropped its arguments and the result:
\* nothing of the call is left but what it did to the host.
CallerResumes(c) ==
  /\ pc[c] = "done"
  /\ pc' = [pc EXCEPT ![c] = "idle"]
  /\ supplied' = [supplied EXCEPT ![c] = <<>>]
  /\ params' = [params EXCEPT ![c] = <<>>]
  /\ nargs' = [nargs EXCEPT ![c] = <<>>]
  /\ outcome' = [outcome EXCEPT ![c] = NoOutcome]
  /\ retval' = [retval EXCEPT ![c] = R_NilValue]
  /\ objects' = [objects EXCEPT ![c] = <<>>]
  /\ buf' = [buf EXCEPT ![c] = <<>>, ![CoerceBuf(c)] = <<>>]
  /\ h' = [h EXCEPT ![c] = NoHistory]
  /\ UNCHANGED <<live, rcpp_result_gen, tmp, pending, preserved, RandomSeed,
                 rngState, RNGScopeCounter, ncalls, seed0, drew>>

\* What one call does after it has begun.
Step(c) ==
  \/ DeclResultGen(c)
  \/ DeclRngScope(c)
  \/ DeclParams(c)
  \/ \E name \in ParamNames : ConvertArg(c, name)
  \/ InvokeNative(c)
  \/ StoreResult(c)
  \/ ReturnStmt(c)
  \/ DestroyRngScope(c)
  \/ DestroyResultGen(c)
  \/ ReturnToCaller(c)
  \/ CatchAndRaise(c)

\* One caller, calling the binding again and again.
Next == CallAny(1) \/ Step(1) \/ CallerResumes(1)

Spec == Init /\ [][Next]_vars

\* Two callers, each calling the binding once, their steps interleaved.
NextConc == \E c \in Calls : CallOnce(c) \/ Step(c)

SpecConc == Init /\ [][NextConc]_vars

\* ============================================================== claims
\* The vocabulary of the claims, stated on the host values themselves.
Done(c) == pc[c] = "done"

\* The native type the documented signature gives each position.
SignatureTypes == <<"NumericMatrix", "int", "double", "double", "int", "int">>

Convertible(x, ty) ==
  IF ty = "NumericMatrix"
  THEN x.type \in {"REALSXP", "INTSXP"} /\ x.isMatrix
  ELSE x.type \in {"REALSXP", "INTSXP"} /\ x.len = 1

AllConvertible(c) ==
  \A i \in 1..Len(SignatureTypes) : Convertible(supplied[c][i], SignatureTypes[i])

\* The number a numeric scalar stands for, in tenths.
NumVal(x) == IF x.type = "INTSXP" THEN 10 * x.val ELSE x.val

\* The same number as a native int (values here are not negative).
IntVal(x) == NumVal(x) \div 10

\* The caller's matrix cells as real numbers, in tenths.
RealCells(c) ==
  [i \in DOMAIN h[c].cells0 |->
     IF supplied[c][1].type = "INTSXP" THEN 10 * h[c].cells0[i] ELSE h[c].cells0[i]]

\* What the routine must receive from call c: each position from the same position.
ArgsDelivered(c) ==
  /\ Len(h[c].recv) = Len(SignatureTypes)
  /\ h[c].recv[1].nrow = supplied[c][1].len
  /\ h[c].seen = RealCells(c)
  /\ h[c].recv[2] = IntVal(supplied[c][2])
  /\ h[c].recv[3] = NumVal(supplied[c][3])
  /\ h[c].recv[4] = NumVal(supplied[c][4])
  /\ h[c].recv[5] = IntVal(supplied[c][5])
  /\ h[c].recv[6] = IntVal(supplied[c][6])

ConversionErrors == {"Rcpp::not_compatible", "Rcpp::not_a_matrix"}

\* C1: in every call the native routine is invoked at most once, and exactly
\* once in a finished call whose six arguments all convert; a failure of the
\* routine is not followed by a second invocation.
C1_InvokedOnce ==
  \A c \in Calls :
    /\ h[c].invocations <= 1
    /\ (Done(c) /\ AllConvertible(c)) => h[c].invocations = 1

C1_Witness ==
  \E c \in Calls : /\ Done(c) /\ AllConvertible(c)
                   /\ h[c].thrown # NoException
                   /\ h[c].invocations = 1
                   /\ outcome[c].kind = "error"

\* C2: when some supplied argument cannot be converted to its native type, the
\* native routine is never invoked in that call, and the call ends in a
\* conversion error raised by the binding.
C2_NoInvocationOnBadArgument ==
  \A c \in Calls :
    (supplied[c] # <<>> /\ ~AllConvertible(c)) =>
      /\ h[c].invocations = 0
      /\ Done(c) => /\ outcome[c].kind = "error"
                     /\ outcome[c].class \in ConversionErrors

C2_Witness ==
  \E c \in Calls : /\ Done(c)
                   /\ Convertible(supplied[c][1], "NumericMatrix")
                   /\ supplied[c][4].type = "STRSXP"
                   /\ h[c].invocations = 0
                   /\ outcome[c].class = "Rcpp::not_compatible"

\* C3, as claimed: whenever the native routine raises a failure, the call ends
\* in a failure that carries the message of the one raised.
C3_SameMeaning ==
  \A c \in Calls :
    (Done(c) /\ h[c].thrown # NoException) =>
      /\ outcome[c].kind \in {"error", "interrupt"}
      /\ outcome[c].message = h[c].thrown.what

\* C3, amended: whenever the native routine raises a failure, the call ends in
\* a failure and never in a value; the failure carries the message and class of
\* the one raised when that is a std::exception, is an interrupt when that is
\* an interrupt, and is the generic error "c++ exception (unknown reason)"
\* when the routine threw anything else.
C3_FailureSurfaced ==
  \A c \in Calls :
    (Done(c) /\ h[c].thrown # NoException) =>
      /\ outcome[c].kind \in {"error", "interrupt"}
      /\ outcome[c].value = R_NilValue
      /\ IF h[c].thrown.type = "non-std"
         THEN /\ outcome[c].kind = "error"
              /\ outcome[c].message = "c++ exception (unknown reason)"
         ELSE IF h[c].thrown.type = "Rcpp::internal::InterruptedException"
         THEN outcome[c].kind = "interrupt"
         ELSE /\ outcome[c].kind = "error"
              /\ outcome[c].message = h[c].thrown.what
              /\ outcome[c].class = h[c].thrown.type

C3_Witness ==
  \E c \in Calls : /\ Done(c)
                   /\ h[c].thrown.type = "non-std"
                   /\ outcome[c].message = "c++ exception (unknown reason)"

\* C4: in every call that reaches the native routine, the routine receives the
\* six values in the positions the caller supplied them, and the theta it
\* receives is the number supplied, theta = 0 included.
C4_ArgumentsInOrder ==
  \A c \in Calls : h[c].invocations >= 1 => ArgsDelivered(c)

C4_Witness ==
  \E c \in Calls : /\ h[c].invocations = 1
                   /\ supplied[c][4] = Sexp("REALSXP", FALSE, 1, 0)
                   /\ supplied[c][3] = Sexp("REALSXP", FALSE, 1, 5)
                   /\ h[c].recv[4] = 0
                   /\ h[c].recv[3] = 5

\* C5: on every successful call the value the caller receives is the very
\* object the native routine returned in that call, its fields as the routine
\* left them, and the binding holds no reference to it afterwards.
C5_ResultForwarded ==
  \A c \in Calls :
    (Done(c) /\ outcome[c].kind = "value") =>
      /\ h[c].produced # <<>>
      /\ outcome[c].value = h[c].produced[1]
      /\ objects[c] = <<h[c].produced[2]>>
      /\ rcpp_result_gen[HolderSlot(c)] = R_NilValue
      /\ tmp[c].sexp = R_NilValue
      /\ outcome[c].value \notin preserved

C5_Witness ==
  \E c \in Calls : /\ Done(c) /\ outcome[c].kind = "value"
                   /\ outcome[c].value # R_NilValue
                   /\ objects[c] # <<>>

\* C6, as claimed: after any call the caller's matrix holds the values it held
\* before, and a routine that writes was handed a buffer of its own.
C6_MatrixUnchanged ==
  \A c \in Calls :
    Done(c) => /\ buf[c] = h[c].cells0
               /\ h[c].wrote => h[c].recv[1].buf # c

\* C6, amended: the binding itself never writes the caller's matrix; it hands
\* the routine the caller's own buffer exactly when the matrix is already a
\* real matrix and a coerced copy otherwise, so the caller's matrix can differ
\* after the call only when it was real and the routine wrote to it.
C6_BindingDoesNotWrite ==
  \A c \in Calls :
    supplied[c] # <<>> =>
      /\ ~h[c].wrote => buf[c] = h[c].cells0
      /\ supplied[c][1].type # "REALSXP" => buf[c] = h[c].cells0
      /\ h[c].invocations >= 1 =>
            (h[c].recv[1].buf = c <=> supplied[c][1].type = "REALSXP")

C6_Witness ==
  \E c \in Calls : /\ Done(c)
                   /\ supplied[c][1].type = "REALSXP"
                   /\ h[c].wrote
                   /\ h[c].recv[1].buf = c
                   /\ buf[c] # h[c].cells0

\* C7, as claimed: after any sequence of calls in which the native routine
\* drew no random number, the host's state is what it was before them.
C7_HostStateUnchanged ==
  (Quiescent /\ ~drew) => RandomSeed = seed0

\* C7, amended: the binding keeps nothing of its own between calls (holder,
\* locals, precious list and RNG scope count are as at the start), but each
\* call reads .Random.seed on entry and writes it on exit: after a call the
\* variable exists, with its earlier value when it existed before and no
\* random number was drawn.
C7_OnlyRandomSeedTouched ==
  Quiescent =>
    /\ RNGScopeCounter = 0
    /\ preserved = {}
    /\ \A c \in Calls : /\ rcpp_result_gen[HolderSlot(c)] = R_NilValue
                         /\ live[c] = <<>>
                         /\ pending[c] = NoException
                         /\ tmp[c].sexp = R_NilValue
    /\ ncalls = 0 => RandomSeed = seed0
    /\ ncalls > 0 => RandomSeed # <<>>
    /\ (seed0 # <<>> /\ ~drew) => RandomSeed = seed0

C7_Witness ==
  /\ Quiescent /\ Done(1) /\ ncalls >= 2 /\ ~drew
  /\ seed0 = <<>> /\ RandomSeed # <<>>

\* C8: under every interleaving of two calls, each call delivers its own six
\* arguments to the native routine and its caller receives the result, or the
\* failure, of its own invocation.
C8_NoInterference ==
  \A c \in Calls :
    /\ h[c].invocations >= 1 => ArgsDelivered(c)
    /\ (Done(c) /\ outcome[c].kind = "value") =>
          /\ h[c].produced # <<>>
          /\ outcome[c].value = h[c].produced[1]
          /\ objects[c] = <<h[c].produced[2]>>
          /\ h[c].produced[2].itercount = IntVal(supplied[c][6])
    /\ (Done(c) /\ h[c].thrown # NoException) =>
          /\ outcome[c].kind # "value"
          /\ h[c].thrown.type \notin {"non-std", "Rcpp::internal::InterruptedException"}
                => outcome[c].message = h[c].thrown.what
    /\ (Done(c) /\ h[c].invocations = 0) => outcome[c].class \in ConversionErrors

C8_Witness ==
  /\ pc[1] = "return" /\ pc[2] = "return"
  /\ rcpp_result_gen[HolderSlot(1)] = h[1].produced[1]
  /\ rcpp_result_gen[HolderSlot(2)] = h[2].produced[1]
  /\ h[1].produced[1] # h[2].produced[1]

C10_RngScopeBracketsCall ==
  \A c \in Calls :
    /\ h[c].entered <= 1
    /\ h[c].exited <= h[c].entered
    /\ ~h[c].early
    /\ Done(c) => (h[c].entered = 1 /\ h[c].exited = 1)
    /\ (Done(c) /\ outcome[c].kind = "value") =>
          /\ h[c].holderAtExit # R_NilValue
          /\ h[c].holderAtExit = outcome[c].value

C10_Witness ==
  \E c \in Calls : /\ Done(c) /\ outcome[c].kind = "value"
                   /\ h[c].entered = 1 /\ h[c].exited = 1
                   /\ h[c].holderAtExit = h[c].produced[1]

====
